---- MODULE Spec2Model ----
(***************************************************************************)
(* A model of bolt::BinarySection (bolt/include/bolt/Core/BinarySection.h): *)
(* the sections of one BinaryContext, their relocation stores, their       *)
(* input/output content views and the buffers those views point at, the    *)
(* layout fields and the ordering of sections.                             *)
(*                                                                         *)
(* Conventions.                                                            *)
(*  - A section is a record holding the fields of the class; `sections' is *)
(*    the sequence of the sections constructed so far, in creation order.  *)
(*  - A pointer is a pair <<kind, n>>: NullPtr, a region of the mapped     *)
(*    input file (<<"file", ref>>) or a heap array (<<"heap", k>>).  A     *)
(*    StringRef is a record [data, len].                                   *)
(*  - ELFFlags is the set of the flag bits that are set.                   *)
(*  - assert() is modelled as in a build with assertions enabled: a failed *)
(*    assertion aborts the program (halted) and changes nothing else.      *)
(*  - `last' records the last call (operation, section, arguments, return  *)
(*    value); `hist' holds, per section, bookkeeping the class does not    *)
(*    keep (padding requested since the contents were set, setters         *)
(*    called).  `freed' and `freedNow' record what delete[] was applied to.*)
(***************************************************************************)
EXTENDS Integers, Sequences, FiniteSets, TLC

VARIABLES isELF, Count, sections, nextHeap, freed, freedNow, hist, last, halted,
          workers, test

vars == <<isELF, Count, sections, nextHeap, freed, freedNow, hist, last, halted,
          workers, test>>

----------------------------------------------------------------------------
(* Bounds of the model.                                                    *)

\* sections per context in the relocation-store specification
MaxRelocSections == 2
\* largest input section size in the relocation-store specification
MaxSize == 2
\* sections per context in the buffer-ownership specification
MaxOwnerSections == 2
\* largest address, file offset and index the layout assigns
MaxLayout == 1
\* records and patches one section holds in the editing specification
MaxEdits == 2
\* sections per context in the ordering specification
MaxOrderSections == 4
\* largest size passed with new contents
MaxLen == 2
\* largest padding of one addPadding call
MaxPad == 2
\* largest OutputSize the callers pad a section to
MaxOutputSize == 4
\* arrays the callers allocate
MaxHeap == 2
\* records held by all the stores of the context together
MaxRelocs == 3

\* bits of an address or size in the address-range specification, standing
\* for the 64 bits of uint64_t: sums of addresses and sizes wrap at 2^AddressBits
AddressBits == 3
\* bits of the type unsigned, which holds Alignment
UnsignedBits == 32

----------------------------------------------------------------------------
(* Pointers and string views.                                              *)

NullPtr == <<"null", 0>>

FilePtr(ref) == <<"file", ref>>

HeapPtr(k) == <<"heap", k>>

StringRef(data, len) == [data |-> data, len |-> len]

EmptyStringRef == StringRef(NullPtr, 0)

\* object::SectionRef: a section of the input object file, with what the file's
\* section table says about it.  Readable tells whether getContents() succeeds.
\* Alignment is the llvm::Align that getAlignment() returns, held as the log2
\* of the alignment (0..63).
SectionRef(id, Address, Size, Alignment, Type, Flags, IsText, Readable) ==
  [id |-> id, Address |-> Address, Size |-> Size, Alignment |-> Alignment,
   Type |-> Type, Flags |-> Flags, IsText |-> IsText, Readable |-> Readable]

\* SectionRef(): the default-constructed reference, which names no section.
NoSectionRef == SectionRef(0, 0, 0, 1, "SHT_NULL", {}, FALSE, FALSE)

----------------------------------------------------------------------------
(* Relocation records and std::multiset<Relocation, std::less<>>.          *)
(* Relocation orders by Offset alone, so the multiset is a sequence sorted *)
(* by Offset in which records of equal Offset stay in insertion order.     *)

Relocation(Offset, Symbol, Type, Addend, Value) ==
  [Offset |-> Offset, Symbol |-> Symbol, Type |-> Type, Addend |-> Addend,
   Value |-> Value]

\* Index of the first element whose Offset is not less than Offset
\* (Len + 1 stands for end()).
lower_bound(S, Offset) ==
  Cardinality({i \in 1..Len(S) : S[i].Offset < Offset}) + 1

\* Index of the first element whose Offset is greater than Offset.
upper_bound(S, Offset) ==
  Cardinality({i \in 1..Len(S) : S[i].Offset <= Offset}) + 1

\* multiset::find: the first element equivalent to the key, or end().
find(S, Offset) ==
  LET i == lower_bound(S, Offset)
  IN  IF i <= Len(S) /\ S[i].Offset = Offset THEN i ELSE Len(S) + 1

\* multiset::emplace: the new element goes to the upper bound of its
\* equivalence range.
emplace(S, R) ==
  LET i == upper_bound(S, R.Offset)
  IN  SubSeq(S, 1, i - 1) \o <<R>> \o SubSeq(S, i, Len(S))

\* multiset::erase(first, last): removes the elements in [first, last).
erase(S, first, lastIt) ==
  SubSeq(S, 1, first - 1) \o SubSeq(S, lastIt, Len(S))

IsSortedByOffset(S) ==
  \A i, j \in 1..Len(S) : i < j => S[i].Offset <= S[j].Offset


----------------------------------------------------------------------------
(* Accessors and classification predicates of a section S.                  *)

getAddress(S) == S.Address

getSize(S) == S.Size

getAlignment(S) == S.Alignment

\* uint64_t getEndAddress() const { return Address + Size; }
getEndAddress(S) == (S.Address + S.Size) % (2 ^ AddressBits)

\* bool containsAddress(uint64_t Address) const
containsAddress(S, Address) ==
  \/ getAddress(S) <= Address /\ Address < getEndAddress(S)
  \/ getSize(S) = 0 /\ getAddress(S) = Address

\* bool containsRange(uint64_t Address, uint64_t Size) const: Address + Size
\* is a uint64_t sum and wraps.
containsRange(S, Address, Size) ==
  /\ containsAddress(S, Address)
  /\ (Address + Size) % (2 ^ AddressBits) <= getEndAddress(S)

getELFType(S) == S.ELFType

getELFFlags(S) == S.ELFFlags

getContents(S) == S.Contents

getData(S) == getContents(S).data

hasSectionRef(S) == S.Section # NoSectionRef

getOutputContents(S) == S.OutputContents

getOutputData(S) == getOutputContents(S).data

getOutputSize(S) == S.OutputSize

isFinalized(S) == S.IsFinalized

hasValidSectionID(S) == S.SectionID # ""

isText(S) ==
  IF isELF THEN "SHF_EXECINSTR" \in S.ELFFlags
  ELSE hasSectionRef(S) /\ S.Section.IsText

isBSS(S) ==
  S.ELFType = "SHT_NOBITS" /\ (S.ELFFlags \cap {"SHF_ALLOC", "SHF_WRITE"}) # {}

isTLS(S) == "SHF_TLS" \in S.ELFFlags

isTBSS(S) == isBSS(S) /\ isTLS(S)

isWritable(S) == "SHF_WRITE" \in S.ELFFlags

\* isAllocatable without the exception for TLS-BSS sections.
isAllocatable_AllocFlag(S) ==
  IF isELF THEN "SHF_ALLOC" \in S.ELFFlags ELSE TRUE

isAllocatable(S) ==
  IF isELF THEN "SHF_ALLOC" \in S.ELFFlags /\ ~isTBSS(S) ELSE TRUE

\* The contents of an input section as the object file gives them: none for an
\* ELF SHT_NOBITS section, else the mapped bytes (an unreadable section makes
\* the constructor exit, see InputConstructor).
getContentsOrQuit(Ref) ==
  IF isELF /\ Ref.Type = "SHT_NOBITS" THEN EmptyStringRef
  ELSE StringRef(FilePtr(Ref.id), Ref.Size)

\* operator< without the final comparison of the section numbers.
operatorLess_NoSectionNumber(A, B) ==
  IF isAllocatable(A) # isAllocatable(B) THEN isAllocatable(A)
  ELSE IF hasSectionRef(A) # hasSectionRef(B) THEN hasSectionRef(A)
  ELSE IF hasSectionRef(A) /\ getAddress(A) # getAddress(B)
    THEN getAddress(A) < getAddress(B)
  ELSE IF hasSectionRef(A) /\ getAddress(A) # 0 /\ getSize(A) # getSize(B)
    THEN getSize(A) < getSize(B)
  ELSE IF isText(A) # isText(B) THEN isText(A)
  ELSE IF isWritable(A) # isWritable(B) THEN ~isWritable(A)
  ELSE IF isBSS(A) # isBSS(B) THEN ~isBSS(A)
  ELSE FALSE

\* operator< comparing the sizes of sections without a section reference too.
operatorLess_SizeWithoutRef(A, B) ==
  IF isAllocatable(A) # isAllocatable(B) THEN isAllocatable(A)
  ELSE IF hasSectionRef(A) # hasSectionRef(B) THEN hasSectionRef(A)
  ELSE IF hasSectionRef(A) /\ getAddress(A) # getAddress(B)
    THEN getAddress(A) < getAddress(B)
  ELSE IF getAddress(A) = getAddress(B) /\ getAddress(A) # 0
          /\ getSize(A) # getSize(B)
    THEN getSize(A) < getSize(B)
  ELSE IF isText(A) # isText(B) THEN isText(A)
  ELSE IF isWritable(A) # isWritable(B) THEN ~isWritable(A)
  ELSE IF isBSS(A) # isBSS(B) THEN ~isBSS(A)
  ELSE A.SectionNumber < B.SectionNumber

\* bool operator<(const BinarySection &Other) const, with A for *this and B
\* for Other.
operatorLess(A, B) ==
  IF isAllocatable(A) # isAllocatable(B) THEN isAllocatable(A)
  ELSE IF hasSectionRef(A) # hasSectionRef(B) THEN hasSectionRef(A)
  ELSE IF hasSectionRef(A) /\ getAddress(A) # getAddress(B)
    THEN getAddress(A) < getAddress(B)
  ELSE IF hasSectionRef(A) /\ getAddress(A) # 0 /\ getSize(A) # getSize(B)
    THEN getSize(A) < getSize(B)
  ELSE IF isText(A) # isText(B) THEN isText(A)
  ELSE IF isWritable(A) # isWritable(B) THEN ~isWritable(A)
  ELSE IF isBSS(A) # isBSS(B) THEN ~isBSS(A)
  ELSE A.SectionNumber < B.SectionNumber

----------------------------------------------------------------------------
(* Constructors: the section each one builds, given the value ++Count       *)
(* yields.                                                                  *)

\* BinarySection(BC, Name, const BinarySection &Section)
CopySection(Src, Number) ==
  [Section |-> NoSectionRef, Contents |-> getContents(Src),
   Address |-> getAddress(Src), Size |-> getSize(Src),
   Alignment |-> getAlignment(Src), ELFType |-> getELFType(Src),
   ELFFlags |-> getELFFlags(Src), Relocations |-> Src.Relocations,
   DynamicRelocations |-> <<>>,
   PendingRelocations |-> Src.PendingRelocations, Patches |-> <<>>,
   Patcher |-> NullPtr,
   IsFinalized |-> FALSE, OutputAddress |-> 0, OutputSize |-> 0,
   OutputFileOffset |-> 0, OutputContents |-> EmptyStringRef,
   SectionNumber |-> Number, SectionID |-> "", Index |-> 0]

\* Alignment(Section.getAlignment().value()): the 64-bit value 2^ShiftValue of
\* the llvm::Align converted to unsigned, which keeps its low UnsignedBits
\* bits.
AlignValueAsUnsigned(ShiftValue) ==
  IF ShiftValue >= UnsignedBits THEN 0 ELSE 2 ^ ShiftValue

\* BinarySection(BC, SectionRef Section).  ELFType and ELFFlags are assigned
\* only when the file is ELF; otherwise they stay uninitialized and Type and
\* Flags stand for the indeterminate values they hold.
InputSection(Ref, Type, Flags, Number) ==
  [Section |-> Ref, Contents |-> getContentsOrQuit(Ref),
   Address |-> Ref.Address, Size |-> Ref.Size,
   Alignment |-> AlignValueAsUnsigned(Ref.Alignment),
   ELFType |-> IF isELF THEN Ref.Type ELSE Type,
   ELFFlags |-> IF isELF THEN Ref.Flags ELSE Flags,
   Relocations |-> <<>>, DynamicRelocations |-> <<>>,
   PendingRelocations |-> <<>>, Patches |-> <<>>, Patcher |-> NullPtr,
   IsFinalized |-> FALSE, OutputAddress |-> 0, OutputSize |-> 0,
   OutputFileOffset |-> 0, OutputContents |-> EmptyStringRef,
   SectionNumber |-> Number, SectionID |-> "", Index |-> 0]

\* The synthetic constructor leaving the input contents empty.
SyntheticSection_EmptyContents(Data, Size, Alignment, ELFType, ELFFlags, Number) ==
  [Section |-> NoSectionRef, Contents |-> EmptyStringRef,
   Address |-> 0, Size |-> Size, Alignment |-> Alignment,
   ELFType |-> ELFType, ELFFlags |-> ELFFlags,
   Relocations |-> <<>>, DynamicRelocations |-> <<>>,
   PendingRelocations |-> <<>>, Patches |-> <<>>, Patcher |-> NullPtr,
   IsFinalized |-> TRUE, OutputAddress |-> 0, OutputSize |-> Size,
   OutputFileOffset |-> 0,
   OutputContents |-> StringRef(Data, IF Data # NullPtr THEN Size ELSE 0),
   SectionNumber |-> Number, SectionID |-> "", Index |-> 0]

\* BinarySection(BC, Name, Data, Size, Alignment, ELFType, ELFFlags)
SyntheticSection(Data, Size, Alignment, ELFType, ELFFlags, Number) ==
  LET Contents == StringRef(Data, IF Data # NullPtr THEN Size ELSE 0)
  IN  [Section |-> NoSectionRef, Contents |-> Contents,
       Address |-> 0, Size |-> Size, Alignment |-> Alignment,
       ELFType |-> ELFType, ELFFlags |-> ELFFlags,
       Relocations |-> <<>>, DynamicRelocations |-> <<>>,
       PendingRelocations |-> <<>>, Patches |-> <<>>, Patcher |-> NullPtr,
       IsFinalized |-> TRUE, OutputAddress |-> 0, OutputSize |-> Size,
       OutputFileOffset |-> 0, OutputContents |-> Contents,
       SectionNumber |-> Number, SectionID |-> "", Index |-> 0]

\* Per-section bookkeeping of a newly built section: the size its output
\* contents were last set with, the padding requested since, the layout
\* setters called.
NewHist(Size) == [size |-> Size, padding |-> 0, setters |-> {}]

----------------------------------------------------------------------------
(* Relocation stores: each method as the section it leaves, the value it    *)
(* returns and whether an assertion failed.                                 *)

Result(S, ret) == [sec |-> S, ret |-> ret, fault |-> FALSE]

Fault(S) == [sec |-> S, ret |-> <<>>, fault |-> TRUE]

\* removeRelocationAt erasing the record found instead of the range to End.
removeRelocationAt_EraseOne(S, Offset) ==
  LET Itr == find(S.Relocations, Offset)
  IN  IF Itr # Len(S.Relocations) + 1
      THEN Result([S EXCEPT !.Relocations =
                     erase(S.Relocations, Itr, Itr + 1)], TRUE)
      ELSE Result(S, FALSE)

\* bool removeRelocationAt(uint64_t Offset)
removeRelocationAt(S, Offset) ==
  LET Itr == find(S.Relocations, Offset)
      End == upper_bound(S.Relocations, Offset)
  IN  IF Itr # Len(S.Relocations) + 1
      THEN Result([S EXCEPT !.Relocations = erase(S.Relocations, Itr, End)],
                  TRUE)
      ELSE Result(S, FALSE)

\* addRelocation leaving Value at its default instead of passing it on.
addRelocation_DropValue(S, Offset, Symbol, Type, Addend, Value) ==
  IF ~(Offset < getSize(S)) THEN Fault(S)
  ELSE Result([S EXCEPT !.Relocations =
                 emplace(S.Relocations,
                         Relocation(Offset, Symbol, Type, Addend, 0))],
              <<>>)

\* void addRelocation(Offset, Symbol, Type, Addend, Value)
addRelocation(S, Offset, Symbol, Type, Addend, Value) ==
  IF ~(Offset < getSize(S)) THEN Fault(S)
  ELSE Result([S EXCEPT !.Relocations =
                 emplace(S.Relocations,
                         Relocation(Offset, Symbol, Type, Addend, Value))],
              <<>>)

\* void addDynamicRelocation(const Relocation &Reloc), which the five-argument
\* overload calls with Relocation{Offset, Symbol, Type, Addend, Value}
addDynamicRelocation(S, Reloc) ==
  IF ~(Reloc.Offset < getSize(S)) THEN Fault(S)
  ELSE Result([S EXCEPT !.DynamicRelocations =
                 emplace(S.DynamicRelocations, Reloc)], <<>>)

\* void addPendingRelocation(const Relocation &Rel)
addPendingRelocation(S, Rel) ==
  Result([S EXCEPT !.PendingRelocations = Append(S.PendingRelocations, Rel)],
         <<>>)

\* const Relocation *getRelocationAt(uint64_t Offset): the index of the record
\* pointed at, 0 for nullptr.
\* addPatch leaving the patch list of a finalized section as it is.
addPatch_UnlessFinalized(S, Offset, Bytes) ==
  IF isFinalized(S) THEN Result(S, <<>>)
  ELSE Result([S EXCEPT !.Patches = Append(@, [Offset |-> Offset,
                                                Bytes |-> Bytes])], <<>>)

\* void addPatch(uint64_t Offset, const SmallVectorImpl<char> &Bytes)
addPatch(S, Offset, Bytes) ==
  Result([S EXCEPT !.Patches = Append(@, [Offset |-> Offset,
                                           Bytes |-> Bytes])], <<>>)

\* void registerPatcher(std::unique_ptr<BinaryPatcher> BPatcher)
registerPatcher(S, BPatcher) == Result([S EXCEPT !.Patcher = BPatcher], <<>>)

\* getRelocationAt returning the last record of the equal range instead of the
\* first.
getRelocationAt_LastAtOffset(S, Offset) ==
  LET Itr == find(S.Relocations, Offset)
  IN  IF Itr # Len(S.Relocations) + 1
      THEN upper_bound(S.Relocations, Offset) - 1
      ELSE 0

\* iterator_range<RelocationSetType::iterator> relocations(): the records from
\* begin() to end().
relocations(S) == SubSeq(S.Relocations, 1, Len(S.Relocations))

getRelocationAt(S, Offset) ==
  LET Itr == find(S.Relocations, Offset)
  IN  IF Itr # Len(S.Relocations) + 1 THEN Itr ELSE 0

\* const Relocation *getDynamicRelocationAt(uint64_t Offset)
getDynamicRelocationAt(S, Offset) ==
  LET Itr == find(S.DynamicRelocations, Offset)
  IN  IF Itr # Len(S.DynamicRelocations) + 1 THEN Itr ELSE 0

\* takeDynamicRelocationAt erasing every record at Offset, as
\* removeRelocationAt does.
takeDynamicRelocationAt_EraseRange(S, Offset) ==
  LET Itr == find(S.DynamicRelocations, Offset)
      End == upper_bound(S.DynamicRelocations, Offset)
  IN  IF Itr = Len(S.DynamicRelocations) + 1 THEN Result(S, <<>>)
      ELSE Result([S EXCEPT !.DynamicRelocations =
                     erase(S.DynamicRelocations, Itr, End)],
                  <<S.DynamicRelocations[Itr]>>)

\* std::optional<Relocation> takeDynamicRelocationAt(uint64_t Offset): a
\* sequence holding the record, empty for std::nullopt.
takeDynamicRelocationAt(S, Offset) ==
  LET Itr == find(S.DynamicRelocations, Offset)
  IN  IF Itr = Len(S.DynamicRelocations) + 1 THEN Result(S, <<>>)
      ELSE Result([S EXCEPT !.DynamicRelocations =
                     erase(S.DynamicRelocations, Itr, Itr + 1)],
                  <<S.DynamicRelocations[Itr]>>)

----------------------------------------------------------------------------
(* Output contents.                                                          *)

\* updateContents taking the output size from the new view of the contents.
updateContents_SizeOfView(S, NewData, NewSize) ==
  LET Release ==
        /\ getOutputData(S) # NullPtr
        /\ ~hasValidSectionID(S)
        /\ \/ ~hasSectionRef(S)
           \/ S.OutputContents.data # getContentsOrQuit(S.Section).data
      View == StringRef(NewData, IF NewData # NullPtr THEN NewSize ELSE 0)
  IN  [sec |-> [S EXCEPT !.OutputContents = View,
                         !.OutputSize = View.len,
                         !.IsFinalized = TRUE],
       deleted |-> IF Release THEN {getOutputData(S)} ELSE {}]

\* updateContents emptying the static relocation store.
updateContents_DropRelocations(S, NewData, NewSize) ==
  LET Release ==
        /\ getOutputData(S) # NullPtr
        /\ ~hasValidSectionID(S)
        /\ \/ ~hasSectionRef(S)
           \/ S.OutputContents.data # getContentsOrQuit(S.Section).data
  IN  [sec |-> [S EXCEPT !.OutputContents =
                           StringRef(NewData,
                                     IF NewData # NullPtr THEN NewSize ELSE 0),
                         !.OutputSize = NewSize,
                         !.IsFinalized = TRUE,
                         !.Relocations = <<>>],
       deleted |-> IF Release THEN {getOutputData(S)} ELSE {}]

\* void updateContents(const uint8_t *NewData, size_t NewSize): the section it
\* leaves and the arrays delete[] is applied to.
updateContents(S, NewData, NewSize) ==
  LET Release ==
        /\ getOutputData(S) # NullPtr
        /\ ~hasValidSectionID(S)
        /\ \/ ~hasSectionRef(S)
           \/ S.OutputContents.data # getContentsOrQuit(S.Section).data
  IN  [sec |-> [S EXCEPT !.OutputContents =
                           StringRef(NewData,
                                     IF NewData # NullPtr THEN NewSize ELSE 0),
                         !.OutputSize = NewSize,
                         !.IsFinalized = TRUE],
       deleted |-> IF Release THEN {getOutputData(S)} ELSE {}]

\* addPadding assigning the padding instead of adding it.
addPadding_Assign(S, PaddingSize) ==
  [S EXCEPT !.OutputSize = PaddingSize]

\* void addPadding(uint64_t PaddingSize).  The sizes of the model stay far
\* below 2^64, so OutputSize += PaddingSize does not wrap.
addPadding(S, PaddingSize) ==
  [S EXCEPT !.OutputSize = S.OutputSize + PaddingSize]

\* void update(NewData, NewSize, NewAlignment, NewELFType, NewELFFlags): the
\* section it leaves, the arrays delete[] is applied to and whether the
\* assertion on NewAlignment failed.
update(S, NewData, NewSize, NewAlignment, NewELFType, NewELFFlags) ==
  IF NewAlignment > 0
  THEN LET R == updateContents([S EXCEPT !.Alignment = NewAlignment,
                                         !.ELFType = NewELFType,
                                         !.ELFFlags = NewELFFlags],
                               NewData, NewSize)
       IN  [sec |-> R.sec, deleted |-> R.deleted, fault |-> FALSE]
  ELSE [sec |-> S, deleted |-> {}, fault |-> TRUE]

----------------------------------------------------------------------------
(* Finalization and layout.                                                  *)

\* void setIsFinalized()
setIsFinalized(S) == Result([S EXCEPT !.IsFinalized = TRUE], <<>>)

\* setOutputAddress marking the section finalized as well.
setOutputAddress_Finalizes(S, Address) ==
  Result([S EXCEPT !.OutputAddress = Address, !.IsFinalized = TRUE], <<>>)

\* void setOutputAddress(uint64_t Address)
setOutputAddress(S, Address) == Result([S EXCEPT !.OutputAddress = Address], <<>>)

\* void setOutputFileOffset(uint64_t Offset)
setOutputFileOffset(S, Offset) ==
  Result([S EXCEPT !.OutputFileOffset = Offset], <<>>)

\* setSectionID without the assertion.
setSectionID_Overwrite(S, ID) == Result([S EXCEPT !.SectionID = ID], <<>>)

\* void setSectionID(StringRef ID)
setSectionID(S, ID) ==
  IF hasValidSectionID(S) THEN Fault(S)
  ELSE Result([S EXCEPT !.SectionID = ID], <<>>)

\* void setIndex(uint32_t I)
setIndex(S, I) == Result([S EXCEPT !.Index = I], <<>>)

----------------------------------------------------------------------------
(* Initial state and the actions.                                           *)

Call(op, s, args, ret) == [op |-> op, sec |-> s, args |-> args, ret |-> ret]

\* The workers that build sections concurrently.
Workers == {1, 2}

\* No allocator and no list constructed yet in the forward_list test.
NoAllocator == [A |-> "none", data |-> 0]

NoList == [alloc |-> NoAllocator, head |-> NullPtr]

\* A BinaryContext with no section yet; the static counter Count is zero.
Init ==
  /\ isELF \in BOOLEAN
  /\ Count = 0
  /\ sections = <<>>
  /\ nextHeap = 0
  /\ freed = {}
  /\ freedNow = {}
  /\ hist = <<>>
  /\ last = Call("none", 0, <<>>, <<>>)
  /\ halted = FALSE
  /\ workers = [w \in Workers |-> [pc |-> "idle", Count |-> 0]]
  /\ test = [pc |-> "start", a |-> NoAllocator, c |-> NoList,
             equal |-> FALSE, empty |-> FALSE]

Live == 1..Len(sections)

\* The records held by all the stores of all the sections.
TotalRelocs ==
  LET n[i \in 0..Len(sections)] ==
        IF i = 0 THEN 0
        ELSE n[i - 1] + Len(sections[i].Relocations)
                      + Len(sections[i].DynamicRelocations)
                      + Len(sections[i].PendingRelocations)
  IN  n[Len(sections)]

\* Construction from a section of the input file.  Reading the contents of a
\* section that is not readable ends the program (exit(1)) before Count is
\* incremented.
InputConstructor(Ref, Type, Flags) ==
  /\ ~halted
  /\ Ref.id = Count + 1
  /\ IF ~Ref.Readable /\ ~(isELF /\ Ref.Type = "SHT_NOBITS")
     THEN /\ halted' = TRUE
          /\ last' = Call("exit", 0, Ref, <<>>)
          /\ UNCHANGED <<Count, sections, hist>>
     ELSE /\ Count' = Count + 1
          /\ sections' = Append(sections, InputSection(Ref, Type, Flags, Count'))
          /\ hist' = Append(hist, NewHist(0))
          /\ last' = Call("InputConstructor", Len(sections) + 1, Ref, <<>>)
          /\ UNCHANGED halted
  /\ UNCHANGED <<isELF, nextHeap, freed, freedNow, workers, test>>

\* Copy construction from the section src.
CopyConstructor(src) ==
  /\ ~halted
  /\ src \in Live
  /\ Count' = Count + 1
  /\ sections' = Append(sections, CopySection(sections[src], Count'))
  /\ hist' = Append(hist, NewHist(0))
  /\ last' = Call("CopyConstructor", Len(sections) + 1, src, <<>>)
  /\ UNCHANGED <<isELF, nextHeap, freed, freedNow, halted, workers, test>>

\* Synthetic construction.  The assertion on Alignment is in the constructor's
\* body, after the member initializers have run.
SyntheticConstructor(Data, Size, Alignment, ELFType, ELFFlags) ==
  /\ ~halted
  /\ Count' = Count + 1
  /\ nextHeap' = IF Data = HeapPtr(nextHeap + 1) THEN nextHeap + 1 ELSE nextHeap
  /\ IF Alignment > 0
     THEN /\ sections' = Append(sections,
                                SyntheticSection(Data, Size, Alignment, ELFType,
                                                 ELFFlags, Count'))
          /\ hist' = Append(hist, NewHist(Size))
          /\ last' = Call("SyntheticConstructor", Len(sections) + 1,
                          [Data |-> Data, Size |-> Size,
                           Alignment |-> Alignment], <<>>)
          /\ UNCHANGED halted
     ELSE /\ halted' = TRUE
          /\ last' = Call("SyntheticConstructor", 0,
                          [Data |-> Data, Size |-> Size,
                           Alignment |-> Alignment], <<>>)
          /\ UNCHANGED <<sections, hist>>
  /\ UNCHANGED <<isELF, freed, freedNow, workers, test>>

\* updateContents on section s.  NewData is null, an array the caller has just
\* allocated (HeapPtr(nextHeap + 1)) or a pointer the caller got elsewhere.
UpdateContents(s, NewData, NewSize) ==
  /\ ~halted
  /\ s \in Live
  /\ LET R == updateContents(sections[s], NewData, NewSize)
     IN  /\ sections' = [sections EXCEPT ![s] = R.sec]
         /\ freed' = freed \cup R.deleted
         /\ freedNow' = R.deleted
  /\ nextHeap' = IF NewData = HeapPtr(nextHeap + 1) THEN nextHeap + 1
                 ELSE nextHeap
  /\ hist' = [hist EXCEPT ![s].size = NewSize, ![s].padding = 0]
  /\ last' = Call("updateContents", s,
                  [NewData |-> NewData, NewSize |-> NewSize], <<>>)
  /\ UNCHANGED <<isELF, Count, halted, workers, test>>

\* update on section s, called by the owning BinaryContext.
Update(s, NewData, NewSize, NewAlignment, NewELFType, NewELFFlags) ==
  /\ ~halted
  /\ s \in Live
  /\ LET R == update(sections[s], NewData, NewSize, NewAlignment, NewELFType,
                     NewELFFlags)
     IN  /\ sections' = [sections EXCEPT ![s] = R.sec]
         /\ freed' = freed \cup R.deleted
         /\ freedNow' = R.deleted
         /\ halted' = R.fault
         /\ hist' = IF R.fault THEN hist
                    ELSE [hist EXCEPT ![s].size = NewSize, ![s].padding = 0]
         /\ nextHeap' = IF ~R.fault /\ NewData = HeapPtr(nextHeap + 1)
                        THEN nextHeap + 1 ELSE nextHeap
  /\ last' = Call("update", s,
                  [NewData |-> NewData, NewSize |-> NewSize,
                   Alignment |-> NewAlignment], <<>>)
  /\ UNCHANGED <<isELF, Count, workers, test>>

AddPadding(s, PaddingSize) ==
  /\ ~halted
  /\ s \in Live
  /\ sections' = [sections EXCEPT ![s] = addPadding(sections[s], PaddingSize)]
  /\ hist' = [hist EXCEPT ![s].padding = @ + PaddingSize]
  /\ last' = Call("addPadding", s, PaddingSize, <<>>)
  /\ UNCHANGED <<isELF, Count, nextHeap, freed, freedNow, halted, workers, test>>

\* A call of a method that touches only the fields of section s: R is what the
\* method leaves, returns and whether it failed an assertion.
Method(op, s, args, R) ==
  /\ ~halted
  /\ s \in Live
  /\ sections' = [sections EXCEPT ![s] = R.sec]
  /\ last' = Call(op, s, args, R.ret)
  /\ halted' = R.fault
  /\ UNCHANGED <<isELF, Count, nextHeap, freed, freedNow, hist, workers, test>>

\* A call of a layout setter: Method, and the setter is noted in hist.
Setter(op, s, args, R) ==
  /\ ~halted
  /\ s \in Live
  /\ sections' = [sections EXCEPT ![s] = R.sec]
  /\ last' = Call(op, s, args, R.ret)
  /\ halted' = R.fault
  /\ hist' = [hist EXCEPT ![s].setters = @ \cup {op}]
  /\ UNCHANGED <<isELF, Count, nextHeap, freed, freedNow, workers, test>>

SetIsFinalized(s) ==
  Method("setIsFinalized", s, <<>>, setIsFinalized(sections[s]))

SetOutputAddress(s, Address) ==
  Setter("setOutputAddress", s, Address,
         setOutputAddress(sections[s], Address))

SetOutputFileOffset(s, Offset) ==
  Setter("setOutputFileOffset", s, Offset,
         setOutputFileOffset(sections[s], Offset))

SetSectionID(s, ID) ==
  Setter("setSectionID", s, ID, setSectionID(sections[s], ID))

SetIndex(s, I) == Setter("setIndex", s, I, setIndex(sections[s], I))

AddRelocation(s, Offset, Symbol, Type, Addend, Value) ==
  Method("addRelocation", s, Relocation(Offset, Symbol, Type, Addend, Value),
         addRelocation(sections[s], Offset, Symbol, Type, Addend, Value))

AddDynamicRelocation(s, Reloc) ==
  Method("addDynamicRelocation", s, Reloc,
         addDynamicRelocation(sections[s], Reloc))

AddPendingRelocation(s, Rel) ==
  Method("addPendingRelocation", s, Rel, addPendingRelocation(sections[s], Rel))

RemoveRelocationAt(s, Offset) ==
  Method("removeRelocationAt", s, Offset,
         removeRelocationAt(sections[s], Offset))

TakeDynamicRelocationAt(s, Offset) ==
  Method("takeDynamicRelocationAt", s, Offset,
         takeDynamicRelocationAt(sections[s], Offset))

IsAllocatable(s) ==
  Method("isAllocatable", s, <<>>,
         Result(sections[s], isAllocatable(sections[s])))

ContainsAddress(s, Address) ==
  Method("containsAddress", s, Address,
         Result(sections[s], containsAddress(sections[s], Address)))

ContainsRange(s, Address, Size) ==
  Method("containsRange", s, [Address |-> Address, Size |-> Size],
         Result(sections[s], containsRange(sections[s], Address, Size)))

AddPatch(s, Offset, Bytes) ==
  Method("addPatch", s, [Offset |-> Offset, Bytes |-> Bytes],
         addPatch(sections[s], Offset, Bytes))

RegisterPatcher(s, BPatcher) ==
  Method("registerPatcher", s, BPatcher, registerPatcher(sections[s], BPatcher))

----------------------------------------------------------------------------
(* The relocation stores: an ELF input section of a small size and copies   *)
(* of it, relocations at every offset up to the largest size (an offset     *)
(* equal to the size is out of bounds).                                     *)

\* The relocations the callers add to the static and the dynamic store: at
\* each offset two records that differ in every other field.
RelocInputs ==
  {Relocation(o, "sym1", 1, 0, 0) : o \in 0..MaxSize}
    \cup {Relocation(o, "sym2", 2, 1, 1) : o \in 0..MaxSize}

\* The relocations the callers add to the pending store.
PendingInputs == {Relocation(o, "sym1", 1, 0, 0) : o \in 0..MaxSize}

RelocRefs ==
  {SectionRef(Count + 1, 16, sz, 1, "SHT_PROGBITS", {"SHF_ALLOC"}, FALSE, TRUE)
     : sz \in 1..MaxSize}

NextReloc ==
  \/ \E Ref \in RelocRefs :
       /\ sections = <<>>
       /\ InputConstructor(Ref, "SHT_NULL", {})
  \/ \E s \in Live, R \in RelocInputs :
       /\ TotalRelocs < MaxRelocs
       /\ AddRelocation(s, R.Offset, R.Symbol, R.Type, R.Addend, R.Value)
  \/ \E s \in Live, R \in RelocInputs :
       /\ TotalRelocs < MaxRelocs
       /\ AddDynamicRelocation(s, R)
  \/ \E s \in Live, R \in PendingInputs :
       /\ TotalRelocs < MaxRelocs
       /\ AddPendingRelocation(s, R)
  \/ \E s \in Live, o \in 0..MaxSize : RemoveRelocationAt(s, o)
  \/ \E s \in Live, o \in 0..MaxSize : TakeDynamicRelocationAt(s, o)

InitReloc == Init /\ isELF = TRUE

\* One input section and its relocation stores.
SpecReloc == InitReloc /\ [][NextReloc]_vars

\* Copies of the sections, which take over the static and the pending store.
NextRelocCopy ==
  \/ NextReloc
  \/ \E src \in Live :
       /\ Len(sections) < MaxRelocSections
       /\ TotalRelocs + Len(sections[src].Relocations)
            + Len(sections[src].PendingRelocations) <= MaxRelocs
       /\ CopyConstructor(src)

\* An input section, its copies and the relocation stores of all of them.
SpecRelocCopy == InitReloc /\ [][NextRelocCopy]_vars

\* The records of the store S at offset o, in iteration order.
RecordsAt(S, o) == SelectSeq(S, LAMBDA r : r.Offset = o)

\* The records of the store S at the offsets other than o.
RecordsNotAt(S, o) == SelectSeq(S, LAMBDA r : r.Offset # o)

\* C1 as stated: after addRelocation(o, ...) with o below the section size,
\* getRelocationAt(o) returns a record equal in every field to the one added.
C1_LookupReturnsAdded ==
  (last.op = "addRelocation" /\ ~halted) =>
    LET S == sections[last.sec]
        p == getRelocationAt(S, last.args.Offset)
    IN  p # 0 /\ S.Relocations[p] = last.args

\* C1 amended: after addRelocation(o, ...) with o below the section size,
\* getRelocationAt(o) returns a record at offset o and the added record is in
\* the store; the record returned is the added one when the store held no
\* record at o before the call, and otherwise it is the record
\* getRelocationAt(o) returned before the call.
C1_LookupAfterAdd ==
  [][(last'.op = "addRelocation" /\ ~halted') =>
       LET s == last'.sec
           o == last'.args.Offset
           Before == sections[s].Relocations
           After == sections'[s].Relocations
           p == getRelocationAt(sections[s], o)
           q == getRelocationAt(sections'[s], o)
       IN  /\ q # 0
           /\ After[q].Offset = o
           /\ RecordsAt(After, o) = Append(RecordsAt(Before, o), last'.args)
           /\ p = 0 => After[q] = last'.args
           /\ p # 0 => After[q] = Before[p]]_vars

\* An addRelocation at an offset that already held a record with other fields.
C1_Witness ==
  /\ last.op = "addRelocation"
  /\ ~halted
  /\ Len(RecordsAt(sections[last.sec].Relocations, last.args.Offset)) >= 2
  /\ RecordsAt(sections[last.sec].Relocations, last.args.Offset)[1] # last.args

\* C2: removeRelocationAt(o) leaves no record at offset o, leaves the records
\* at every other offset as they were, and returns true exactly when a record
\* at offset o existed before the call.
C2_RemoveAt ==
  [][last'.op = "removeRelocationAt" =>
       LET s == last'.sec
           o == last'.args
           Before == sections[s].Relocations
           After == sections'[s].Relocations
       IN  /\ RecordsAt(After, o) = <<>>
           /\ getRelocationAt(sections'[s], o) = 0
           /\ RecordsNotAt(After, o) = RecordsNotAt(Before, o)
           /\ Len(After) = Len(Before) - Len(RecordsAt(Before, o))
           /\ last'.ret = (RecordsAt(Before, o) # <<>>)]_vars

\* A removeRelocationAt that removed records and left records at another
\* offset in the store.
C2_Witness ==
  /\ last.op = "removeRelocationAt"
  /\ last.ret = TRUE
  /\ sections[last.sec].Relocations # <<>>

\* C3 as stated: when takeDynamicRelocationAt(o) returns a record, a following
\* getDynamicRelocationAt(o) returns none.
C3_TakeThenLookupNone ==
  (last.op = "takeDynamicRelocationAt" /\ last.ret # <<>>) =>
    getDynamicRelocationAt(sections[last.sec], last.args) = 0

\* C3 amended: when takeDynamicRelocationAt(o) returns a record, it is the
\* first record at offset o and exactly that one record is removed; a
\* following getDynamicRelocationAt(o) returns none exactly when the store
\* held a single record at offset o before the call.  The call returns none,
\* and changes nothing, exactly when the store held no record at o.
C3_TakeRemovesOne ==
  [][last'.op = "takeDynamicRelocationAt" =>
       LET s == last'.sec
           o == last'.args
           Before == sections[s].DynamicRelocations
           After == sections'[s].DynamicRelocations
           AtBefore == RecordsAt(Before, o)
       IN  /\ (last'.ret = <<>>) = (AtBefore = <<>>)
           /\ last'.ret = <<>> => After = Before
           /\ last'.ret # <<>> =>
                /\ last'.ret = <<AtBefore[1]>>
                /\ RecordsAt(After, o) = Tail(AtBefore)
                /\ RecordsNotAt(After, o) = RecordsNotAt(Before, o)
                /\ (getDynamicRelocationAt(sections'[s], o) = 0)
                     = (Len(AtBefore) = 1)]_vars

\* A takeDynamicRelocationAt that returned a record while another record at
\* the same offset stays in the store.
C3_Witness ==
  /\ last.op = "takeDynamicRelocationAt"
  /\ last.ret # <<>>
  /\ getDynamicRelocationAt(sections[last.sec], last.args) # 0

\* C6: every record of the static, dynamic and pending store of a section has
\* an offset below the section's size, and an insertion at an offset that is
\* not below the size fails an assertion.
C6_OffsetsBelowSize ==
  /\ \A s \in Live :
       \A St \in {sections[s].Relocations, sections[s].DynamicRelocations,
                  sections[s].PendingRelocations} :
         \A i \in 1..Len(St) : St[i].Offset < getSize(sections[s])
  /\ (/\ last.op \in {"addRelocation", "addDynamicRelocation",
                      "addPendingRelocation"}
      /\ ~(last.args.Offset < getSize(sections[last.sec]))) => halted

----------------------------------------------------------------------------
(* The output contents of one section, built from the input file or         *)
(* synthetically: contents set from a null pointer, a newly allocated array *)
(* or a pointer the section gives out, and padding.                         *)

\* The data pointers a caller has at hand: null, an array it has just
\* allocated, and what getData and getOutputData of the sections return
\* (arrays already released left aside).
NewDataChoices ==
  ({NullPtr}
     \cup {HeapPtr(nextHeap + 1) : k \in {n \in {1} : nextHeap < MaxHeap}}
     \cup {getData(sections[s]) : s \in Live}
     \cup {getOutputData(sections[s]) : s \in Live}) \ freed

ContentRefs ==
  {SectionRef(Count + 1, 16, MaxLen, 1, ty, {"SHF_ALLOC"}, FALSE, TRUE)
     : ty \in {"SHT_PROGBITS", "SHT_NOBITS"}}

NextContent ==
  \/ \E Ref \in ContentRefs :
       /\ sections = <<>>
       /\ InputConstructor(Ref, "SHT_PROGBITS", {})
  \/ \E Data \in {NullPtr, HeapPtr(nextHeap + 1)}, Size \in 0..MaxLen :
       /\ sections = <<>>
       /\ nextHeap < MaxHeap
       /\ SyntheticConstructor(Data, Size, 1, "SHT_PROGBITS", {})
  \/ \E s \in Live, NewData \in NewDataChoices, NewSize \in 0..MaxLen :
       UpdateContents(s, NewData, NewSize)
  \/ \E s \in Live, PaddingSize \in 0..MaxPad :
       /\ sections[s].OutputSize + PaddingSize <= MaxOutputSize
       /\ AddPadding(s, PaddingSize)

SpecContent == Init /\ [][NextContent]_vars

\* C4 as stated: OutputSize equals the byte length of OutputContents plus the
\* padding requested since the contents were last set, and IsFinalized is true
\* after every updateContents and every synthetic construction.
C4_SizeIsLengthPlusPadding ==
  /\ \A s \in Live :
       getOutputSize(sections[s])
         = getOutputContents(sections[s]).len + hist[s].padding
  /\ last.op \in {"updateContents", "SyntheticConstructor"} /\ ~halted
       => isFinalized(sections[last.sec])

\* C4 amended: OutputSize equals the size the contents were last set with
\* (by updateContents or the synthetic constructor; 0 before) plus the padding
\* requested since; the byte length of OutputContents is that size when the
\* data pointer was not null and 0 when it was null, so OutputSize is the
\* length plus the padding except after a null pointer with a nonzero size.
\* IsFinalized is true after every updateContents and synthetic construction.
C4_SizeIsSetSizePlusPadding ==
  /\ \A s \in Live :
       /\ getOutputSize(sections[s]) = hist[s].size + hist[s].padding
       /\ getOutputContents(sections[s]).len
            = IF getOutputData(sections[s]) # NullPtr THEN hist[s].size ELSE 0
       /\ (getOutputData(sections[s]) # NullPtr \/ hist[s].size = 0) =>
            getOutputSize(sections[s])
              = getOutputContents(sections[s]).len + hist[s].padding
  /\ last.op \in {"updateContents", "SyntheticConstructor"} /\ ~halted
       => isFinalized(sections[last.sec])

\* Padding added after updateContents with a null pointer and a nonzero size.
C4_Witness ==
  /\ last.op = "addPadding"
  /\ last.args > 0
  /\ getOutputData(sections[last.sec]) = NullPtr
  /\ hist[last.sec].size > 0
  /\ isFinalized(sections[last.sec])

\* C5: after updateContents(data, n) getOutputSize() is n, whatever padding
\* was added before; addPadding(p) makes getOutputSize() grow by p, to n + p
\* right after that updateContents, and leaves OutputContents as it was.
C5_UpdateThenPad ==
  [][/\ last'.op = "updateContents" =>
          getOutputSize(sections'[last'.sec]) = last'.args.NewSize
     /\ last'.op = "addPadding" =>
          /\ getOutputSize(sections'[last'.sec])
               = getOutputSize(sections[last'.sec]) + last'.args
          /\ getOutputContents(sections'[last'.sec])
               = getOutputContents(sections[last'.sec])
          /\ last.op = "updateContents" =>
               getOutputSize(sections'[last'.sec])
                 = last.args.NewSize + last'.args]_vars

\* A padded section whose contents were then set anew and padded again.
C5_Witness ==
  /\ last.op = "addPadding"
  /\ last.args > 0
  /\ getOutputData(sections[last.sec]) # NullPtr
  /\ getOutputContents(sections[last.sec]).len > 0
  /\ getOutputSize(sections[last.sec])
       = getOutputContents(sections[last.sec]).len + last.args
  /\ freed # {}

----------------------------------------------------------------------------
(* Ownership of the output buffers: sections built by each constructor,     *)
(* contents set from the pointers the callers have at hand, section ids.    *)

OwnerRefs ==
  {SectionRef(Count + 1, 16, 1, 1, "SHT_PROGBITS", {"SHF_ALLOC"}, FALSE, TRUE)}

NextOwner ==
  \/ \E Ref \in OwnerRefs :
       /\ Len(sections) < MaxOwnerSections
       /\ InputConstructor(Ref, "SHT_PROGBITS", {})
  \/ \E src \in Live :
       /\ Len(sections) < MaxOwnerSections
       /\ CopyConstructor(src)
  \/ /\ Len(sections) < MaxOwnerSections
     /\ nextHeap < MaxHeap
     /\ SyntheticConstructor(HeapPtr(nextHeap + 1), 1, 1, "SHT_PROGBITS", {})
  \/ \E s \in Live, NewData \in NewDataChoices :
       UpdateContents(s, NewData, 1)
  \/ \E s \in Live : SetSectionID(s, "id")

SpecOwner == Init /\ [][NextOwner]_vars

\* The output buffer of section s aliases memory of the mapped input file.
AliasesInput(s) == getOutputData(sections[s])[1] = "file"

\* Another section's OutputContents refers to the output buffer of section s.
AliasesOther(s) ==
  \E t \in Live \ {s} :
    getOutputData(sections[t]) = getOutputData(sections[s])

\* Section s exclusively owns the array its OutputContents points at: an
\* allocated array that no other section's OutputContents refers to, of a
\* section without a section id.
ExclusivelyOwns(s) ==
  /\ getOutputData(sections[s])[1] = "heap"
  /\ ~AliasesOther(s)
  /\ ~hasValidSectionID(sections[s])

\* C9: updateContents releases nothing but the previous output buffer of the
\* section; it never releases input-file memory, a buffer another section's
\* OutputContents refers to or the buffer of a section with a section id, and
\* it always releases a buffer the section exclusively owns.
C9_ReleasesExactlyOwned ==
  [][last'.op = "updateContents" =>
       LET s == last'.sec
       IN  /\ freedNow' \subseteq {getOutputData(sections[s])}
           /\ freedNow' # {} =>
                /\ ~AliasesInput(s)
                /\ ~AliasesOther(s)
                /\ ~hasValidSectionID(sections[s])
           /\ ExclusivelyOwns(s) => freedNow' # {}]_vars

----------------------------------------------------------------------------
(* Finalization and layout of one section: built from the input file or     *)
(* synthetically, finalized by updateContents or setIsFinalized, layout     *)
(* fields set in any order.                                                 *)

LayoutRefs ==
  {SectionRef(Count + 1, 16, 1, 1, "SHT_PROGBITS", {"SHF_ALLOC"}, FALSE, TRUE)}

SectionIDs == {"", "id1", "id2"}

NextLayout ==
  \/ \E Ref \in LayoutRefs :
       /\ sections = <<>>
       /\ InputConstructor(Ref, "SHT_PROGBITS", {})
  \/ /\ sections = <<>>
     /\ SyntheticConstructor(HeapPtr(nextHeap + 1), 1, 1, "SHT_PROGBITS", {})
  \/ \E s \in Live :
       /\ nextHeap < MaxHeap
       /\ UpdateContents(s, HeapPtr(nextHeap + 1), 1)
  \/ \E s \in Live : SetIsFinalized(s)
  \/ \E s \in Live, Address \in 0..MaxLayout : SetOutputAddress(s, Address)
  \/ \E s \in Live, Offset \in 0..MaxLayout : SetOutputFileOffset(s, Offset)
  \/ \E s \in Live, I \in 0..MaxLayout : SetIndex(s, I)
  \/ \E s \in Live, ID \in SectionIDs : SetSectionID(s, ID)

SpecLayout == Init /\ [][NextLayout]_vars

\* C10 as stated: no section has IsFinalized false and a nonzero
\* OutputAddress, OutputFileOffset or Index or a non-empty SectionID.
C10_LayoutOnlyWhenFinalized ==
  \A s \in Live :
    ~isFinalized(sections[s]) =>
      /\ sections[s].OutputAddress = 0
      /\ sections[s].OutputFileOffset = 0
      /\ sections[s].Index = 0
      /\ sections[s].SectionID = ""

\* C10 amended: OutputAddress, OutputFileOffset and Index are zero and
\* SectionID is empty from construction until the respective setter is called
\* on the section; a setter stores its argument whether or not the section is
\* finalized and leaves IsFinalized as it was.
C10_LayoutOnlyBySetters ==
  [][/\ \A s \in 1..Len(sections') :
          /\ sections'[s].OutputAddress # 0 =>
               "setOutputAddress" \in hist'[s].setters
          /\ sections'[s].OutputFileOffset # 0 =>
               "setOutputFileOffset" \in hist'[s].setters
          /\ sections'[s].Index # 0 => "setIndex" \in hist'[s].setters
          /\ sections'[s].SectionID # "" => "setSectionID" \in hist'[s].setters
     /\ (/\ last'.op \in {"setOutputAddress", "setOutputFileOffset",
                          "setIndex", "setSectionID"}
         /\ ~halted') =>
          /\ isFinalized(sections'[last'.sec]) = isFinalized(sections[last'.sec])
          /\ last'.op = "setOutputAddress" =>
               sections'[last'.sec].OutputAddress = last'.args
          /\ last'.op = "setOutputFileOffset" =>
               sections'[last'.sec].OutputFileOffset = last'.args
          /\ last'.op = "setIndex" => sections'[last'.sec].Index = last'.args
          /\ last'.op = "setSectionID" =>
               sections'[last'.sec].SectionID = last'.args]_vars

\* A section that is not finalized and has its layout assigned.
C10_Witness ==
  \E s \in Live :
    /\ ~isFinalized(sections[s])
    /\ sections[s].OutputAddress # 0
    /\ sections[s].OutputFileOffset # 0
    /\ sections[s].Index # 0
    /\ sections[s].SectionID # ""

----------------------------------------------------------------------------
(* The ordering of sections: sections built by each constructor, with the   *)
(* addresses, sizes, types and flags that make each step of operator<       *)
(* decide for some pair.                                                    *)

\* Address, size, type and flags of the input sections: every combination of
\* a zero or nonzero address with two sizes, and a writable and an executable
\* section beside the read-only one at the same address and size.
OrderInputs ==
  {<<0, 1, "SHT_PROGBITS", {"SHF_ALLOC"}>>,
   <<0, 2, "SHT_PROGBITS", {"SHF_ALLOC"}>>,
   <<16, 1, "SHT_PROGBITS", {"SHF_ALLOC"}>>,
   <<16, 2, "SHT_PROGBITS", {"SHF_ALLOC"}>>,
   <<16, 1, "SHT_PROGBITS", {"SHF_ALLOC", "SHF_WRITE"}>>,
   <<16, 1, "SHT_PROGBITS", {"SHF_ALLOC", "SHF_EXECINSTR"}>>}

\* Type and flags of the synthetic sections (a copy of an input section is
\* the read-only allocatable section without a section reference).
OrderSyntheticBits ==
  {<<"SHT_PROGBITS", {}>>,
   <<"SHT_PROGBITS", {"SHF_ALLOC", "SHF_EXECINSTR"}>>,
   <<"SHT_PROGBITS", {"SHF_ALLOC", "SHF_WRITE"}>>,
   <<"SHT_NOBITS", {"SHF_ALLOC", "SHF_WRITE"}>>}

\* The file reports as text the sections that hold instructions.
OrderRefs ==
  {SectionRef(Count + 1, i[1], i[2], 1, i[3], i[4],
              "SHF_EXECINSTR" \in i[4], TRUE) : i \in OrderInputs}

NextOrder ==
  \/ \E Ref \in OrderRefs :
       /\ Len(sections) < MaxOrderSections
       /\ InputConstructor(Ref, Ref.Type, Ref.Flags)
  \/ \E src \in Live :
       /\ Len(sections) < MaxOrderSections
       /\ CopyConstructor(src)
  \/ \E b \in OrderSyntheticBits :
       /\ Len(sections) < MaxOrderSections
       /\ SyntheticConstructor(NullPtr, 1, 1, b[1], b[2])

SpecOrder == Init /\ [][NextOrder]_vars

\* The sections a < b, as indices of the context.
Less(a, b) == operatorLess(sections[a], sections[b])

\* C7: operator< is a strict total order over the sections created so far by
\* any mix of the three constructors: no section is less than itself, a < b
\* and b < c give a < c, and of two distinct sections exactly one is less
\* than the other.
C7_StrictTotalOrder ==
  /\ \A a \in Live : ~Less(a, a)
  /\ \A a \in Live, b \in Live :
       Less(a, b) => \A c \in Live : Less(b, c) => Less(a, c)
  /\ \A a \in Live, b \in Live : a # b => (Less(a, b) # Less(b, a))

\* An input section and two sections without a section reference, whose order
\* the section number alone decides.
C7_Witness ==
  /\ Len(sections) >= 3
  /\ \E a \in Live, b \in Live, c \in Live :
       /\ hasSectionRef(sections[a])
       /\ ~hasSectionRef(sections[b]) /\ ~hasSectionRef(sections[c])
       /\ sections[b].SectionNumber < sections[c].SectionNumber
       /\ isText(sections[b]) = isText(sections[c])
       /\ isWritable(sections[b]) = isWritable(sections[c])
       /\ isBSS(sections[b]) = isBSS(sections[c])
       /\ isAllocatable(sections[a]) /\ isAllocatable(sections[b])
       /\ isAllocatable(sections[c])
       /\ Less(a, b) /\ Less(b, c) /\ Less(a, c)

Cmp(x, y) == IF x < y THEN "lt" ELSE IF y < x THEN "gt" ELSE "tie"

First(b) == IF b THEN 0 ELSE 1

\* Step k of the cascade for the pair A, B: "lt" when it puts A first, "gt"
\* when it puts B first, "tie" when it does not decide.  SizeForAll says
\* whether step 4 applies to sections without a section reference as well.
PolicyStep(k, A, B, SizeForAll) ==
  CASE k = 1 -> Cmp(First(isAllocatable(A)), First(isAllocatable(B)))
    [] k = 2 -> Cmp(First(hasSectionRef(A)), First(hasSectionRef(B)))
    [] k = 3 -> IF hasSectionRef(A) /\ hasSectionRef(B)
                  THEN Cmp(getAddress(A), getAddress(B)) ELSE "tie"
    [] k = 4 -> IF /\ SizeForAll \/ (hasSectionRef(A) /\ hasSectionRef(B))
                   /\ getAddress(A) = getAddress(B)
                   /\ getAddress(A) # 0
                  THEN Cmp(getSize(A), getSize(B)) ELSE "tie"
    [] k = 5 -> Cmp(First(isText(A)), First(isText(B)))
    [] k = 6 -> Cmp(First(~isWritable(A)), First(~isWritable(B)))
    [] k = 7 -> Cmp(First(~isBSS(A)), First(~isBSS(B)))
    [] k = 8 -> Cmp(A.SectionNumber, B.SectionNumber)

\* A comes before B when some step puts A first and every earlier step ties.
PolicyLess(A, B, SizeForAll) ==
  \E k \in 1..8 :
    /\ PolicyStep(k, A, B, SizeForAll) = "lt"
    /\ \A j \in 1..(k - 1) : PolicyStep(j, A, B, SizeForAll) = "tie"

\* C8 as stated: for every pair of sections operator< is the result of the
\* eight-step cascade in which ascending size decides whenever the addresses
\* tie and are nonzero, also for sections without a section reference.
C8_CascadeSizeForAll ==
  \A a \in Live, b \in Live :
    Less(a, b) = PolicyLess(sections[a], sections[b], TRUE)

\* C8 amended: for every pair of sections operator< is the result of the
\* eight-step cascade in which ascending address and ascending size decide
\* only between two sections that both have a section reference; between two
\* sections without one (synthetic or copy-constructed) neither the address
\* nor the size is compared.
C8_CascadeSizeAmongInput ==
  \A a \in Live, b \in Live :
    Less(a, b) = PolicyLess(sections[a], sections[b], FALSE)

\* Two copy-constructed sections with the same nonzero address and different
\* sizes, where the larger one is less than the smaller one.
C8_Witness ==
  \E a \in Live, b \in Live :
    /\ ~hasSectionRef(sections[a]) /\ ~hasSectionRef(sections[b])
    /\ getAddress(sections[a]) = getAddress(sections[b])
    /\ getAddress(sections[a]) # 0
    /\ getSize(sections[a]) > getSize(sections[b])
    /\ Less(a, b)

----------------------------------------------------------------------------
(* Edits and finalization of one section: patches and relocations added and *)
(* removed before and after the section is finalized; a patcher, contents   *)
(* (once), padding (once per contents) and the layout (output address, then *)
(* file offset, then index, then section id) set in between.                *)

EditRefs ==
  {SectionRef(Count + 1, 16, 2, 1, "SHT_PROGBITS", {"SHF_ALLOC"}, FALSE, TRUE)}

\* The relocations the callers add: two offsets, and at one of them two
\* records that differ in every other field.
EditRelocs ==
  {Relocation(0, "sym1", 1, 0, 0), Relocation(1, "sym1", 1, 0, 0),
   Relocation(0, "sym2", 2, 1, 1)}

\* The records and patches section s holds.
Edits(s) ==
  Len(sections[s].Relocations) + Len(sections[s].DynamicRelocations)
    + Len(sections[s].PendingRelocations) + Len(sections[s].Patches)

NextEdit ==
  \/ \E Ref \in EditRefs :
       /\ sections = <<>>
       /\ InputConstructor(Ref, "SHT_PROGBITS", {})
  \/ /\ sections = <<>>
     /\ SyntheticConstructor(NullPtr, 2, 1, "SHT_PROGBITS", {})
  \/ \E s \in Live, R \in EditRelocs :
       /\ Edits(s) < MaxEdits
       /\ AddRelocation(s, R.Offset, R.Symbol, R.Type, R.Addend, R.Value)
  \/ \E s \in Live, R \in EditRelocs :
       /\ Edits(s) < MaxEdits
       /\ AddDynamicRelocation(s, R)
  \/ \E s \in Live, R \in EditRelocs :
       /\ Edits(s) < MaxEdits
       /\ AddPendingRelocation(s, R)
  \/ \E s \in Live, o \in 0..1 : RemoveRelocationAt(s, o)
  \/ \E s \in Live, o \in 0..1 : TakeDynamicRelocationAt(s, o)
  \/ \E s \in Live, o \in 0..1 :
       /\ Edits(s) < MaxEdits
       /\ AddPatch(s, o, <<"b">>)
  \/ \E s \in Live, P \in {NullPtr, <<"patcher", 1>>} : RegisterPatcher(s, P)
  \/ \E s \in Live :
       /\ nextHeap = 0
       /\ UpdateContents(s, HeapPtr(nextHeap + 1), 2)
  \/ \E s \in Live : SetIsFinalized(s)
  \/ \E s \in Live :
       /\ hist[s].padding = 0
       /\ AddPadding(s, 1)
  \/ \E s \in Live : SetOutputAddress(s, 1)
  \/ \E s \in Live :
       /\ sections[s].OutputAddress # 0
       /\ SetOutputFileOffset(s, 1)
  \/ \E s \in Live :
       /\ sections[s].OutputFileOffset # 0
       /\ SetIndex(s, 1)
  \/ \E s \in Live :
       /\ sections[s].Index # 0
       /\ SetSectionID(s, "id1")

SpecEdit == InitReloc /\ [][NextEdit]_vars

EditOps ==
  {"addPatch", "addRelocation", "addDynamicRelocation", "addPendingRelocation",
   "removeRelocationAt", "takeDynamicRelocationAt"}

\* The patch list and the three relocation stores of a section.
Stores(S) ==
  <<S.Relocations, S.DynamicRelocations, S.PendingRelocations, S.Patches>>

\* C11 as stated: once IsFinalized is true, a patch or relocation edit changes
\* neither the patch list nor a relocation store of the section.
C11_EditsOnlyBeforeFinalized ==
  [][(last'.op \in EditOps /\ isFinalized(sections[last'.sec])) =>
       Stores(sections'[last'.sec]) = Stores(sections[last'.sec])]_vars

\* C11 amended: a patch or relocation edit takes effect whether or not the
\* section is finalized, and leaves IsFinalized as it was: addPatch and
\* addPendingRelocation append their argument, addRelocation and
\* addDynamicRelocation with an offset below the size add one record,
\* removeRelocationAt removes the records at the offset and
\* takeDynamicRelocationAt removes the record it returns.
C11_EditsWhetherFinalized ==
  [][(last'.op \in EditOps /\ ~halted') =>
       LET S == sections[last'.sec]
           T == sections'[last'.sec]
       IN  /\ isFinalized(T) = isFinalized(S)
           /\ last'.op = "addPatch" => T.Patches = Append(S.Patches, last'.args)
           /\ last'.op = "addPendingRelocation" =>
                T.PendingRelocations = Append(S.PendingRelocations, last'.args)
           /\ last'.op = "addRelocation" =>
                /\ Len(T.Relocations) = Len(S.Relocations) + 1
                /\ \E i \in 1..Len(T.Relocations) : T.Relocations[i] = last'.args
           /\ last'.op = "addDynamicRelocation" =>
                /\ Len(T.DynamicRelocations) = Len(S.DynamicRelocations) + 1
                /\ \E i \in 1..Len(T.DynamicRelocations) :
                     T.DynamicRelocations[i] = last'.args
           /\ last'.op = "removeRelocationAt" =>
                T.Relocations = RecordsNotAt(S.Relocations, last'.args)
           /\ last'.op = "takeDynamicRelocationAt" =>
                Len(T.DynamicRelocations)
                  = Len(S.DynamicRelocations) - Len(last'.ret)]_vars

\* A relocation added to a section after updateContents finalized it.
C11_Witness ==
  /\ last.op = "addRelocation"
  /\ ~halted
  /\ isFinalized(sections[last.sec])
  /\ getOutputData(sections[last.sec])[1] = "heap"
  /\ Len(sections[last.sec].Relocations) = 1

----------------------------------------------------------------------------
(* The section id, under the layout specification.                          *)

\* C12 as stated: for every id passed, the empty string included, the first
\* setSectionID call on a section stores the id, and every later call on it
\* fails the assertion and leaves the stored id unchanged.
C12_SetAtMostOnce ==
  [][last'.op = "setSectionID" =>
       LET s == last'.sec
       IN  IF "setSectionID" \in hist[s].setters
           THEN halted' /\ sections'[s].SectionID = sections[s].SectionID
           ELSE ~halted' /\ sections'[s].SectionID = last'.args]_vars

\* C12 amended: a setSectionID call fails the assertion, leaving the stored
\* id unchanged, exactly when the stored id is not empty; otherwise it stores
\* its argument.  A non-empty id is therefore stored at most once, while a
\* call that passes the empty string leaves the section without a valid id
\* and the call after it is accepted.
C12_FaultWhenIdNotEmpty ==
  [][last'.op = "setSectionID" =>
       LET s == last'.sec
       IN  IF sections[s].SectionID # ""
           THEN halted' /\ sections'[s].SectionID = sections[s].SectionID
           ELSE ~halted' /\ sections'[s].SectionID = last'.args]_vars

\* A second non-empty id passed to a section that has one: the call failed and
\* the first id is still stored.
C12_Witness ==
  /\ halted
  /\ last.op = "setSectionID"
  /\ last.args = "id2"
  /\ sections[last.sec].SectionID = "id1"

----------------------------------------------------------------------------
(* The section the synthetic constructor builds, under the specification of *)
(* the output contents.                                                     *)

\* C13 as stated: right after synthetic construction getContents() is empty
\* and IsFinalized is true, for every data pointer and size.
C13_SyntheticContentsEmpty ==
  (last.op = "SyntheticConstructor" /\ ~halted) =>
    /\ getContents(sections[last.sec]).len = 0
    /\ isFinalized(sections[last.sec])

\* C13 amended: right after synthetic construction IsFinalized is true and
\* getContents() is the view of the data passed, of the size passed when the
\* pointer is not null and empty when it is null, so it is empty exactly for a
\* null pointer or size 0; OutputContents is the same view.
C13_SyntheticContentsAreData ==
  (last.op = "SyntheticConstructor" /\ ~halted) =>
    LET S == sections[last.sec]
        Data == last.args.Data
        Size == last.args.Size
    IN  /\ isFinalized(S)
        /\ getData(S) = Data
        /\ getContents(S).len = IF Data # NullPtr THEN Size ELSE 0
        /\ getContents(S).len = 0 <=> (Data = NullPtr \/ Size = 0)
        /\ getOutputContents(S) = getContents(S)

\* A synthetic section built from an array, whose input contents are the
\* array.
C13_Witness ==
  /\ last.op = "SyntheticConstructor"
  /\ ~halted
  /\ last.args.Data # NullPtr
  /\ getContents(sections[last.sec]).len > 0
  /\ isFinalized(sections[last.sec])

----------------------------------------------------------------------------
(* Alignment: sections built by each constructor from every kind of         *)
(* alignment, and update calls.                                             *)

\* sections per context in the alignment specification
MaxAlignSections == 2

\* The alignments of the sections of the input file, as log2: 1, 2, 2^32 and
\* 2^63 bytes.
AlignShifts == {0, 1, UnsignedBits, 63}

\* The alignments the callers pass to the synthetic constructor and update.
Alignments == {0, 1, 2}

AlignRefs ==
  {SectionRef(Count + 1, 16, 1, sh, "SHT_PROGBITS", {"SHF_ALLOC"}, FALSE, TRUE)
     : sh \in AlignShifts}

NextAlign ==
  \/ \E Ref \in AlignRefs :
       /\ Len(sections) < MaxAlignSections
       /\ InputConstructor(Ref, "SHT_PROGBITS", {})
  \/ \E src \in Live :
       /\ Len(sections) < MaxAlignSections
       /\ CopyConstructor(src)
  \/ \E Alignment \in Alignments :
       /\ Len(sections) < MaxAlignSections
       /\ SyntheticConstructor(NullPtr, 1, Alignment, "SHT_PROGBITS", {})
  \/ \E s \in Live, NewAlignment \in Alignments :
       Update(s, NullPtr, 1, NewAlignment, "SHT_PROGBITS", {"SHF_ALLOC"})

SpecAlign == Init /\ [][NextAlign]_vars

\* C14: the alignment of every section is greater than 0, whichever
\* constructor built it and after any update calls, and a synthetic
\* construction or update with alignment 0 fails the assertion.
C14_AlignmentPositive ==
  /\ \A s \in Live : getAlignment(sections[s]) > 0
  /\ (/\ last.op \in {"SyntheticConstructor", "update"}
      /\ last.args.Alignment = 0) => halted

----------------------------------------------------------------------------
(* Address ranges: one section of the input file at every address and of    *)
(* every size, or a synthetic one; its output address, contents and padding *)
(* set; containsAddress asked for every address, containsRange for every    *)
(* address and size.                                                        *)

Addresses == 0..(2 ^ AddressBits - 1)

RangeRefs ==
  {SectionRef(Count + 1, a, sz, 1, "SHT_PROGBITS", {"SHF_ALLOC"}, FALSE, TRUE)
     : a \in Addresses, sz \in Addresses}

NextRange ==
  \/ \E Ref \in RangeRefs :
       /\ sections = <<>>
       /\ InputConstructor(Ref, "SHT_PROGBITS", {})
  \/ \E Size \in 0..1 :
       /\ sections = <<>>
       /\ SyntheticConstructor(NullPtr, Size, 1, "SHT_PROGBITS", {})
  \/ \E s \in Live : SetOutputAddress(s, 1)
  \/ \E s \in Live :
       /\ hist[s].size = 0
       /\ UpdateContents(s, NullPtr, 1)
  \/ \E s \in Live :
       /\ hist[s].padding = 0
       /\ AddPadding(s, 1)
  \/ \E s \in Live, x \in Addresses : ContainsAddress(s, x)
  \/ \E s \in Live, a \in Addresses, sz \in Addresses : ContainsRange(s, a, sz)

SpecRange == Init /\ [][NextRange]_vars

\* C15: containsAddress(x) is, for a section of size 0, whether x is the
\* section's start address and, for a section of size > 0, whether
\* start <= x < start + size, whatever the output address, output size and
\* padding are.
C15_ContainsAddressIsInputRange ==
  last.op = "containsAddress" =>
    LET S == sections[last.sec]
        x == last.args
    IN  last.ret = IF getSize(S) = 0 THEN x = getAddress(S)
                   ELSE getAddress(S) <= x /\ x < getAddress(S) + getSize(S)

----------------------------------------------------------------------------
(* Classification: one section of every type and flag combination, built    *)
(* from the input file or synthetically, in an ELF file and in one that is  *)
(* not ELF; its type and flags changed by update; isAllocatable asked.      *)

ClassTypes == {"SHT_PROGBITS", "SHT_NOBITS"}

ClassFlags == SUBSET {"SHF_ALLOC", "SHF_WRITE", "SHF_TLS", "SHF_EXECINSTR"}

ClassRefs ==
  {SectionRef(Count + 1, 16, 1, 1, ty, fl, "SHF_EXECINSTR" \in fl, TRUE)
     : ty \in ClassTypes, fl \in ClassFlags}

NextClass ==
  \/ \E Ref \in ClassRefs :
       /\ sections = <<>>
       /\ InputConstructor(Ref, Ref.Type, Ref.Flags)
  \/ \E ty \in ClassTypes, fl \in ClassFlags :
       /\ sections = <<>>
       /\ SyntheticConstructor(NullPtr, 1, 1, ty, fl)
  \/ \E s \in Live, ty \in ClassTypes, fl \in ClassFlags :
       /\ hist[s].size = 0
       /\ Update(s, NullPtr, 1, 1, ty, fl)
  \/ \E s \in Live : IsAllocatable(s)

SpecClass == Init /\ [][NextClass]_vars

\* A section with TLS-BSS format bits: type NOBITS with the TLS flag and the
\* alloc or write flag.
HasTLSBSSBits(S) ==
  /\ getELFType(S) = "SHT_NOBITS"
  /\ "SHF_TLS" \in getELFFlags(S)
  /\ getELFFlags(S) \cap {"SHF_ALLOC", "SHF_WRITE"} # {}

\* C16 as stated: in every container format isAllocatable() is false for a
\* TLS-BSS section and equals the alloc flag for every other section.
C16_AllocatableFromBits ==
  last.op = "isAllocatable" =>
    LET S == sections[last.sec]
    IN  last.ret = IF HasTLSBSSBits(S) THEN FALSE
                   ELSE "SHF_ALLOC" \in getELFFlags(S)

\* C16 amended: in an ELF file isAllocatable() is false for a TLS-BSS section
\* and equals the alloc flag for every other section; in a file that is not
\* ELF it is true for every section, whatever the type and flag bits are.
C16_AllocatableFromBitsInELF ==
  last.op = "isAllocatable" =>
    LET S == sections[last.sec]
    IN  last.ret = IF ~isELF THEN TRUE
                   ELSE IF HasTLSBSSBits(S) THEN FALSE
                   ELSE "SHF_ALLOC" \in getELFFlags(S)

\* isAllocatable asked of a TLS-BSS section with the alloc flag in an ELF file.
C16_Witness ==
  /\ last.op = "isAllocatable"
  /\ isELF
  /\ HasTLSBSSBits(sections[last.sec])
  /\ "SHF_ALLOC" \in getELFFlags(sections[last.sec])
  /\ last.ret = FALSE

----------------------------------------------------------------------------
(* The test of forward_list(const allocator_type& a) (alloc.pass.cpp): each *)
(* block constructs an allocator, constructs a list from it, and asserts    *)
(* that get_allocator() equals the allocator and that the list is empty.    *)
(* The blocks are run for test_allocator with every argument up to          *)
(* MaxAllocData (the test passes 12) and for the two stateless allocators.  *)

\* largest argument of test_allocator
MaxAllocData == 31

\* test_allocator<T>(data): the allocator remembers its argument.
test_allocator(data) == [A |-> "test_allocator", data |-> data]

\* min_allocator<T>{} and explicit_allocator<T>{} hold no state.
min_allocator == [A |-> "min_allocator", data |-> 0]

explicit_allocator == [A |-> "explicit_allocator", data |-> 0]

\* operator== of two allocators of one type: test_allocator compares the
\* arguments, the stateless allocators are all equal.
AllocatorEqual(x, y) ==
  /\ x.A = y.A
  /\ x.A = "test_allocator" => x.data = y.data

\* forward_list ignoring its argument and value-initializing its allocator.
forward_list_DefaultAllocator(a) ==
  [alloc |-> [A |-> a.A, data |-> 0], head |-> NullPtr]

\* explicit forward_list(const allocator_type& a): a copy of a, and no node
\* after the before-begin node.
forward_list(a) == [alloc |-> a, head |-> NullPtr]

get_allocator(c) == c.alloc

empty(c) == c.head = NullPtr

\* A(12), A{}: the allocator of a block.
TestConstructAllocator(a) ==
  /\ ~halted
  /\ test.pc = "start"
  /\ test' = [test EXCEPT !.pc = "allocator", !.a = a]
  /\ UNCHANGED <<isELF, Count, sections, nextHeap, freed, freedNow, hist, last,
                 halted, workers>>

\* C c(a);
TestConstructList ==
  /\ ~halted
  /\ test.pc = "allocator"
  /\ test' = [test EXCEPT !.pc = "list", !.c = forward_list(test.a)]
  /\ UNCHANGED <<isELF, Count, sections, nextHeap, freed, freedNow, hist, last,
                 halted, workers>>

\* assert(c.get_allocator() == A(...)), against a second allocator built from
\* the same argument.
TestAssertGetAllocator ==
  /\ ~halted
  /\ test.pc = "list"
  /\ LET eq == AllocatorEqual(get_allocator(test.c),
                              [A |-> test.a.A, data |-> test.a.data])
     IN  /\ test' = [test EXCEPT !.pc = "get_allocator", !.equal = eq]
         /\ halted' = ~eq
  /\ UNCHANGED <<isELF, Count, sections, nextHeap, freed, freedNow, hist, last,
                 workers>>

\* assert(c.empty());
TestAssertEmpty ==
  /\ ~halted
  /\ test.pc = "get_allocator"
  /\ test' = [test EXCEPT !.pc = "empty", !.empty = empty(test.c)]
  /\ halted' = ~empty(test.c)
  /\ UNCHANGED <<isELF, Count, sections, nextHeap, freed, freedNow, hist, last,
                 workers>>

\* The end of a block: the list and the allocator are destroyed.
TestEndBlock ==
  /\ ~halted
  /\ test.pc = "empty"
  /\ test' = [pc |-> "start", a |-> NoAllocator, c |-> NoList,
              equal |-> FALSE, empty |-> FALSE]
  /\ UNCHANGED <<isELF, Count, sections, nextHeap, freed, freedNow, hist, last,
                 halted, workers>>

NextTest ==
  \/ \E data \in 0..MaxAllocData : TestConstructAllocator(test_allocator(data))
  \/ TestConstructAllocator(min_allocator)
  \/ TestConstructAllocator(explicit_allocator)
  \/ TestConstructList
  \/ TestAssertGetAllocator
  \/ TestAssertEmpty
  \/ TestEndBlock

SpecTest == InitReloc /\ [][NextTest]_vars

----------------------------------------------------------------------------
(* Two workers that construct synthetic sections concurrently.  ++Count on  *)
(* the static counter, which is neither atomic nor guarded by a lock, is a  *)
(* read of Count followed by a write of the incremented value; the steps of *)
(* the workers interleave in every order.                                   *)

\* sections the workers construct
MaxWorkerSections == 3

\* The sections whose construction has begun.
Begun ==
  Len(sections) + Cardinality({w \in Workers : workers[w].pc = "read"})

\* Worker w begins a construction: ++Count reads the counter.
WorkerReadCount(w) ==
  /\ ~halted
  /\ workers[w].pc = "idle"
  /\ Begun < MaxWorkerSections
  /\ workers' = [workers EXCEPT ![w] = [pc |-> "read", Count |-> Count]]
  /\ UNCHANGED <<isELF, Count, sections, nextHeap, freed, freedNow, hist, last,
                 halted, test>>

\* Worker w ends the construction: ++Count writes the incremented value,
\* which becomes the SectionNumber.
WorkerWriteCount(w, ELFFlags) ==
  /\ ~halted
  /\ workers[w].pc = "read"
  /\ Count' = workers[w].Count + 1
  /\ sections' = Append(sections,
                        SyntheticSection(NullPtr, 1, 1, "SHT_PROGBITS",
                                         ELFFlags, Count'))
  /\ hist' = Append(hist, NewHist(1))
  /\ last' = Call("SyntheticConstructor", Len(sections) + 1,
                  [Data |-> NullPtr, Size |-> 1, Alignment |-> 1], <<>>)
  /\ workers' = [workers EXCEPT ![w] = [pc |-> "idle", Count |-> 0]]
  /\ UNCHANGED <<isELF, nextHeap, freed, freedNow, halted, test>>

NextWorkers ==
  \/ \E w \in Workers : WorkerReadCount(w)
  \/ \E w \in Workers, fl \in {{"SHF_ALLOC"}, {"SHF_ALLOC", "SHF_WRITE"}} :
       WorkerWriteCount(w, fl)

SpecWorkers == Init /\ [][NextWorkers]_vars

\* C18: any two distinct sections the workers constructed have distinct
\* section numbers, and operator< orders them one way.
C18_DistinctSectionNumbers ==
  \A a \in Live, b \in Live :
    a # b =>
      /\ sections[a].SectionNumber # sections[b].SectionNumber
      /\ Less(a, b) # Less(b, a)

----------------------------------------------------------------------------
(* The relocation stores under the other operations of the section, in the  *)
(* editing specification.                                                   *)

\* The record getRelocationAt returns, as a sequence of no or one record.
RelocationAt(S, o) ==
  IF getRelocationAt(S, o) = 0 THEN <<>>
  ELSE <<S.Relocations[getRelocationAt(S, o)]>>

\* C19: a step changes the static store of a section only by addRelocation or
\* removeRelocationAt on it, the dynamic store only by addDynamicRelocation or
\* takeDynamicRelocationAt on it and the pending store only by
\* addPendingRelocation on it; addPatch, registerPatcher, updateContents,
\* addPadding, setIsFinalized and the layout setters leave all three as they
\* are, and getRelocationAt returns after them what it returned before.
C19_StoresChangedByOwnOperations ==
  [][\A s \in 1..Len(sections) :
       LET S == sections[s]
           T == sections'[s]
       IN  /\ T.Relocations # S.Relocations =>
                /\ last'.op \in {"addRelocation", "removeRelocationAt"}
                /\ last'.sec = s
           /\ T.DynamicRelocations # S.DynamicRelocations =>
                /\ last'.op \in {"addDynamicRelocation",
                                 "takeDynamicRelocationAt"}
                /\ last'.sec = s
           /\ T.PendingRelocations # S.PendingRelocations =>
                /\ last'.op = "addPendingRelocation"
                /\ last'.sec = s
           /\ last'.op \in {"addPatch", "registerPatcher", "updateContents",
                            "addPadding", "setIsFinalized", "setOutputAddress",
                            "setOutputFileOffset", "setIndex", "setSectionID"}
                => \A o \in 0..1 : RelocationAt(T, o) = RelocationAt(S, o)]_vars

\* A section with a relocation and a queued patch whose contents were then
\* updated: the relocation is still found.
C19_Witness ==
  /\ last.op = "updateContents"
  /\ sections[last.sec].Patches # <<>>
  /\ getOutputData(sections[last.sec])[1] = "heap"
  /\ RelocationAt(sections[last.sec], 1) = <<Relocation(1, "sym1", 1, 0, 0)>>

----------------------------------------------------------------------------
(* Iteration order of the static relocation store.                          *)

\* The indices of the iteration I that hold a record at offset o.
IndicesAt(I, o) == {i \in 1..Len(I) : I[i].Offset = o}

\* C20: after any sequence of addRelocation and removeRelocationAt calls,
\* relocations() yields every stored record once in non-decreasing offset
\* order, records of one offset in the order of their insertion (an
\* addRelocation appends its record to the records of its offset and adds
\* nothing else, a removeRelocationAt takes out the records of its offset and
\* leaves the others in their order, no other call changes the iteration),
\* and getRelocationAt(o) returns the first record at offset o of the
\* iteration, none when the iteration has no record at o.
C20_IterationOrder ==
  [][\A s \in 1..Len(sections') :
       LET After == relocations(sections'[s])
           Before == IF s <= Len(sections) THEN relocations(sections[s])
                     ELSE <<>>
           IsAdd == last'.op = "addRelocation" /\ last'.sec = s /\ ~halted'
           IsRemove == last'.op = "removeRelocationAt" /\ last'.sec = s
       IN  /\ IsSortedByOffset(After)
           /\ \A o \in 0..MaxSize :
                LET p == getRelocationAt(sections'[s], o)
                IN  /\ (p = 0) = (IndicesAt(After, o) = {})
                    /\ p # 0 =>
                         /\ p \in IndicesAt(After, o)
                         /\ \A i \in IndicesAt(After, o) : p <= i
                         /\ After[p] = RecordsAt(After, o)[1]
           /\ IsAdd =>
                /\ Len(After) = Len(Before) + 1
                /\ \A o \in 0..MaxSize :
                     RecordsAt(After, o) =
                       IF o = last'.args.Offset
                       THEN Append(RecordsAt(Before, o), last'.args)
                       ELSE RecordsAt(Before, o)
           /\ IsRemove =>
                \A o \in 0..MaxSize :
                  RecordsAt(After, o) =
                    IF o = last'.args THEN <<>> ELSE RecordsAt(Before, o)
           /\ ~(IsAdd \/ IsRemove) => After = Before]_vars

\* The record added last is the first of the iteration, ahead of two records
\* of a higher offset that stand in the order of their insertion, the earlier
\* of which getRelocationAt returns.
C20_Witness ==
  /\ last.op = "addRelocation"
  /\ ~halted
  /\ last.args = Relocation(0, "sym2", 2, 1, 1)
  /\ relocations(sections[last.sec]) =
       <<Relocation(0, "sym2", 2, 1, 1), Relocation(1, "sym2", 2, 1, 1),
         Relocation(1, "sym1", 1, 0, 0)>>
  /\ getRelocationAt(sections[last.sec], 1) = 2

----------------------------------------------------------------------------
(* Lifetime of the output buffer of one section.                            *)

\* C21: after any sequence of updateContents calls on a section,
\* OutputContents does not refer to an array the section has released, and
\* updateContents releases no array a second time; the calls include
\* updateContents with the pointer getOutputData() returns.
C21_NoUseAfterRelease ==
  [][last'.op = "updateContents" =>
       /\ getOutputData(sections'[last'.sec]) \notin freed'
       /\ freedNow' \cap freed = {}]_vars

----------------------------------------------------------------------------
(* Ranges accepted by containsRange.                                        *)

\* C22: whenever containsRange(a, s) returns true, every address of
\* [a, a + s) lies in the section's input range [Address, Address + Size),
\* the sums taken without wrap-around; a range or a section whose end
\* overflows makes neither containsRange nor containsAddress accept an address
\* outside the section.
C22_AcceptedRangeInside ==
  /\ (last.op = "containsRange" /\ last.ret = TRUE) =>
       LET S == sections[last.sec]
       IN  \A x \in last.args.Address..(last.args.Address + last.args.Size - 1) :
             getAddress(S) <= x /\ x < getAddress(S) + getSize(S)
  /\ (last.op = "containsAddress" /\ last.ret = TRUE) =>
       LET S == sections[last.sec]
       IN  \/ getAddress(S) <= last.args
              /\ last.args < getAddress(S) + getSize(S)
           \/ getSize(S) = 0 /\ last.args = getAddress(S)

====
